---- MODULE Spec2Model ----
(***************************************************************************)
(* A model of backend/lambda_function.py: the transformation of a raw      *)
(* Amazon Transcribe result into de-duplicated speaker turns and per       *)
(* speaker vocabulary statistics.                                          *)
(*                                                                         *)
(* A Python str is modelled as a sequence of one-character strings, so     *)
(* that whitespace normalisation, splitting, joining, case folding,        *)
(* formatting and parsing are computed and not assumed.                    *)
(***************************************************************************)
EXTENDS Integers, Sequences, FiniteSets, TLC

VARIABLES
    pc,               \* position of the call being modelled
    phrase,           \* SpecDedupe: the words the input text is built from
    reps,             \* SpecDedupe: how many times the phrase is repeated
    text,             \* SpecDedupe: the str passed to _dedupe_text
    deduped,          \* SpecDedupe: _dedupe_text(text)
    again,            \* SpecDedupe: _dedupe_text(deduped)
    speaker_segments, \* results.speaker_labels.segments, as received
    n_items,          \* len(results.items)
    transcript,       \* results.transcripts[0].transcript, once it is read
    segments,         \* the complete segments, sorted by start
    idx,              \* how many items the for loop has taken
    item,             \* the item the for loop took last
    seg_index,        \* the segment cursor (0-based, as in the code)
    current_speaker,
    current_text,
    speaker_lines,
    unique_raw,       \* the raw labels of the turns, in ordinal order
    speaker_count,    \* the count returned with the turns
    sample_limit,     \* the sample_limit _unique_words_by_speaker is given
    unique_words      \* what _unique_words_by_speaker returns

dedupe_vars == <<phrase, reps, text, deduped, again>>

turn_vars == <<speaker_segments, n_items, transcript, segments, idx, item,
               seg_index, current_speaker, current_text, speaker_lines,
               unique_raw, speaker_count, sample_limit, unique_words>>

vars == <<pc, dedupe_vars, turn_vars>>

----------------------------------------------------------------------------
(* Strings *)

Min(a, b) == IF a < b THEN a ELSE b

\* Python's None where a str may stand, and the value of a str variable not
\* assigned yet: equal to no str of the model.
None == <<"None">>

\* The loop variable before the loop has taken an item.
NoItem == [type |-> "none"]

\* The whitespace characters of the model (Python's \s and str.split()
\* agree on them).
IsSpace(c) == c \in {" ", "\t"}

Indices(s) == [k \in 1..Len(s) |-> k]

\* str.strip(): what lies between the first and the last non-whitespace
\* character.
Strip(s) ==
    LET solid == SelectSeq(Indices(s), LAMBDA k : ~IsSpace(s[k]))
    IN  IF solid = <<>> THEN <<>> ELSE SubSeq(s, solid[1], solid[Len(solid)])

\* re.sub(r"\s+", " ", s): every maximal run of whitespace becomes one space.
CollapseSpace(s) ==
    LET kept == SelectSeq(Indices(s),
                          LAMBDA k : ~IsSpace(s[k]) \/ k = 1 \/ ~IsSpace(s[k - 1]))
    IN  [j \in 1..Len(kept) |-> IF IsSpace(s[kept[j]]) THEN " " ELSE s[kept[j]]]

NormSpace(s) == CollapseSpace(Strip(s))

\* str.split(): the maximal runs of non-whitespace, in order.
Split(s) ==
    LET first == SelectSeq(Indices(s),
                           LAMBDA k : ~IsSpace(s[k]) /\ (k = 1 \/ IsSpace(s[k - 1])))
        last  == SelectSeq(Indices(s),
                           LAMBDA k : ~IsSpace(s[k]) /\ (k = Len(s) \/ IsSpace(s[k + 1])))
    IN  [j \in 1..Len(first) |-> SubSeq(s, first[j], last[j])]

\* sep.join(words), by halves.
RECURSIVE JoinRange(_, _, _, _)
JoinRange(words, sep, lo, hi) ==
    IF lo > hi THEN <<>>
    ELSE IF lo = hi THEN words[lo]
    ELSE LET mid == (lo + hi) \div 2
         IN  JoinRange(words, sep, lo, mid) \o sep \o JoinRange(words, sep, mid + 1, hi)

\* " ".join(words)
Join(words) == JoinRange(words, <<" ">>, 1, Len(words))

\* The characters of the model in ascending code point order, which is the
\* order Python compares str by.
CodeOrder ==
    << "\t", " ", "'", ",", ".", "0", "1", "2", "3", "4", "5", "6", "7", "8", "9",
       "A", "B", "C", "D", "E", "F", "G", "H", "I", "J", "K", "L", "M", "N", "O",
       "P", "Q", "R", "S", "T", "U", "V", "W", "X", "Y", "Z", "_",
       "a", "b", "c", "d", "e", "f", "g", "h", "i", "j", "k", "l", "m", "n", "o",
       "p", "q", "r", "s", "t", "u", "v", "w", "x", "y", "z" >>

Characters == { CodeOrder[k] : k \in 1..Len(CodeOrder) }

CodePoint == [c \in Characters |-> CHOOSE k \in 1..Len(CodeOrder) : CodeOrder[k] = c]

Ord(c) == CodePoint[c]

UpperCase == { c \in Characters : Ord(c) >= Ord("A") /\ Ord(c) <= Ord("Z") }
LowerCase == { c \in Characters : Ord(c) >= Ord("a") /\ Ord(c) <= Ord("z") }
Digits    == { c \in Characters : Ord(c) >= Ord("0") /\ Ord(c) <= Ord("9") }

IsUpper(c) == c \in UpperCase
IsLower(c) == c \in LowerCase
IsDigit(c) == c \in Digits

\* str.lower()
LowerOf ==
    [c \in Characters |->
        IF c \in UpperCase THEN CodeOrder[Ord(c) - Ord("A") + Ord("a")] ELSE c]

Lower(s) == [k \in 1..Len(s) |-> LowerOf[s[k]]]

\* a < b for str: at the first difference, or a is a proper prefix of b.
StrLess(a, b) ==
    \/ \E k \in 1..Min(Len(a), Len(b)) :
          /\ SubSeq(a, 1, k - 1) = SubSeq(b, 1, k - 1)
          /\ Ord(a[k]) < Ord(b[k])
    \/ Len(a) < Len(b) /\ a = SubSeq(b, 1, Len(a))

\* sorted(S) for a set of str.
SortedStrings(S) ==
    [j \in 1..Cardinality(S) |->
        CHOOSE x \in S : Cardinality({ y \in S : StrLess(y, x) }) = j - 1]

\* s.split(sep) for a one-character sep: the fields between the separators,
\* empty ones included.
SplitOn(s, sep) ==
    LET at == SelectSeq(Indices(s), LAMBDA k : s[k] = sep)
    IN  [j \in 1..(Len(at) + 1) |->
            SubSeq(s, IF j = 1 THEN 1 ELSE at[j - 1] + 1,
                      IF j = Len(at) + 1 THEN Len(s) ELSE at[j] - 1)]

\* int(s) succeeds on a non-empty run of decimal digits (signs, padding and
\* other digit forms are not among the model's labels).
IsInt(s) == s # <<>> /\ \A k \in 1..Len(s) : IsDigit(s[k])

RECURSIVE ParseInt(_)
ParseInt(s) ==
    IF s = <<>> THEN 0
    ELSE 10 * ParseInt(SubSeq(s, 1, Len(s) - 1)) + (Ord(s[Len(s)]) - Ord("0"))

\* str(n) for n >= 0
RECURSIVE Decimal(_)
Decimal(n) ==
    IF n < 10 THEN << CodeOrder[Ord("0") + n] >>
    ELSE Append(Decimal(n \div 10), CodeOrder[Ord("0") + (n % 10)])

\* f"speaker {n}"
SpeakerName(n) == <<"s", "p", "e", "a", "k", "e", "r", " ">> \o Decimal(n)

\* sorted(xs, key=...), a stable sort: by key, and among equal keys by
\* position in xs. keys[i] is the key of xs[i].
StableSort(xs, keys) ==
    LET Before(i, j) == keys[i] < keys[j] \/ (keys[i] = keys[j] /\ i < j)
    IN  [r \in 1..Len(xs) |->
            xs[CHOOSE j \in 1..Len(xs) :
                  Cardinality({ i \in 1..Len(xs) : Before(i, j) }) = r - 1]]

\* The orders in which a set can be iterated.
Orders(S) ==
    { f \in [1..Cardinality(S) -> S] : \A i, j \in DOMAIN f : i # j => f[i] # f[j] }

----------------------------------------------------------------------------
(* De-duplication utilities *)

\* _dedupe_text calls the n-gram pass with n_min=2, n_max=12.
N_MIN == 2
N_MAX == 12

\* The for loop of _dedupe_immediate_repeated_ngrams at position i (0-based):
\* the largest n, from n down to n_min, whose n words at i equal the n words
\* after them; 0 when there is none.
\* MatchLen with the search stopping one short of n_min, as range(max_n_here,
\* n_min, -1) would.
RECURSIVE MatchLen_SkipsMin(_, _, _, _)
MatchLen_SkipsMin(words, i, n, n_min) ==
    IF n <= n_min THEN 0
    ELSE IF SubSeq(words, i + 1, i + n) = SubSeq(words, i + n + 1, i + 2 * n)
         THEN n
         ELSE MatchLen_SkipsMin(words, i, n - 1, n_min)

RECURSIVE MatchLen(_, _, _, _)
MatchLen(words, i, n, n_min) ==
    IF n < n_min THEN 0
    ELSE IF SubSeq(words, i + 1, i + n) = SubSeq(words, i + n + 1, i + 2 * n)
         THEN n
         ELSE MatchLen(words, i, n - 1, n_min)

\* The while loop of _dedupe_immediate_repeated_ngrams.
RECURSIVE NgramScan(_, _, _, _, _)
NgramScan(words, i, out, n_min, n_max) ==
    IF i >= Len(words) THEN out
    ELSE LET max_n_here == Min(n_max, (Len(words) - i) \div 2)
             n == MatchLen(words, i, max_n_here, n_min)
         IN  IF n > 0
             THEN NgramScan(words, i + 2 * n, out \o SubSeq(words, i + 1, i + n),
                            n_min, n_max)
             ELSE NgramScan(words, i + 1, Append(out, words[i + 1]), n_min, n_max)

DedupeImmediateRepeatedNgrams(s, n_min, n_max) ==
    LET words == Split(NormSpace(s))
    IN  IF Len(words) < 2 * n_min
        THEN Join(words)
        ELSE Join(NgramScan(words, 0, <<>>, n_min, n_max))

\* DedupeText with a single pass.
DedupeText_OnePass(s) ==
    NormSpace(DedupeImmediateRepeatedNgrams(s, N_MIN, N_MAX))

\* DedupeText with single words taken for phrases (n_min=1).
DedupeText_MinOne(s) ==
    LET t1 == DedupeImmediateRepeatedNgrams(s, 1, N_MAX)
        t2 == DedupeImmediateRepeatedNgrams(t1, 1, N_MAX)
    IN  NormSpace(t2)

DedupeText(s) ==
    LET t1 == DedupeImmediateRepeatedNgrams(s, N_MIN, N_MAX)
        t2 == DedupeImmediateRepeatedNgrams(t1, N_MIN, N_MAX)
    IN  NormSpace(t2)

----------------------------------------------------------------------------
(* Cross-turn duplicates *)

\* LineKey without the case folding.
LineKey_CaseSensitive(ln) == NormSpace(ln.text)

\* The key _drop_consecutive_duplicate_lines compares turns by.
LineKey(ln) == Lower(NormSpace(ln.text))

\* The for loop of _drop_consecutive_duplicate_lines from line k on.
RECURSIVE DropFrom(_, _, _, _)
DropFrom(lines, k, prev_key, cleaned) ==
    IF k > Len(lines) THEN cleaned
    ELSE LET txt == LineKey(lines[k])
         IN  IF txt = <<>> THEN DropFrom(lines, k + 1, prev_key, cleaned)
             ELSE IF txt = prev_key THEN DropFrom(lines, k + 1, prev_key, cleaned)
             ELSE DropFrom(lines, k + 1, txt, Append(cleaned, lines[k]))

DropConsecutiveDuplicateLines(lines) == DropFrom(lines, 1, None, <<>>)

----------------------------------------------------------------------------
(* Unique words per speaker *)

\* _WORD_RE = [A-Za-z']+
IsWordChar(c) == IsUpper(c) \/ IsLower(c) \/ c = "'"

\* _WORD_RE.findall(s): the maximal runs of word characters, in order.
FindAllWords(s) ==
    LET first == SelectSeq(Indices(s),
                     LAMBDA k : IsWordChar(s[k]) /\ (k = 1 \/ ~IsWordChar(s[k - 1])))
        last  == SelectSeq(Indices(s),
                     LAMBDA k : IsWordChar(s[k]) /\ (k = Len(s) \/ ~IsWordChar(s[k + 1])))
    IN  [j \in 1..Len(first) |-> SubSeq(s, first[j], last[j])]

\* What spk_num answers for a speaker with no integer after the first space.
SPK_NUM_DEFAULT == 999999

SpkNum(sp) ==
    LET parts == SplitOn(sp, " ")
    IN  IF Len(parts) >= 2 /\ IsInt(parts[2]) THEN ParseInt(parts[2])
        ELSE SPK_NUM_DEFAULT

\* ln.get("speaker") or "speaker 1"
SpeakerOf(ln) == IF ln.speaker # <<>> THEN ln.speaker ELSE SpeakerName(1)

\* The set words_map[sp] ends as.
WordsOf(lines, sp) ==
    UNION { { Lower(FindAllWords(lines[k].text)[j]) :
                j \in 1..Len(FindAllWords(lines[k].text)) } :
            k \in { i \in 1..Len(lines) : SpeakerOf(lines[i]) = sp } }

\* words_map.keys(): the speakers in the order of their first turn.
SpeakersSeen(lines) ==
    LET firsts == SelectSeq(Indices(lines),
                      LAMBDA k : \A i \in 1..(k - 1) :
                                    SpeakerOf(lines[i]) # SpeakerOf(lines[k]))
    IN  [j \in 1..Len(firsts) |-> SpeakerOf(lines[firsts[j]])]

\* UniqueWordsBySpeaker counting the sample instead of the set.
UniqueWordsBySpeaker_CountsSample(lines, limit) ==
    LET seen == SpeakersSeen(lines)
        sps == StableSort(seen, [i \in DOMAIN seen |-> SpkNum(seen[i])])
    IN  [j \in 1..Len(sps) |->
            LET ws == SortedStrings(WordsOf(lines, sps[j]))
                sample == SubSeq(ws, 1, Min(limit, Len(ws)))
            IN  [ speaker |-> sps[j],
                  unique_word_count |-> Len(sample),
                  unique_words_sample |-> sample ]]

UniqueWordsBySpeaker(lines, limit) ==
    LET seen == SpeakersSeen(lines)
        sps == StableSort(seen, [i \in DOMAIN seen |-> SpkNum(seen[i])])
    IN  [j \in 1..Len(sps) |->
            LET ws == SortedStrings(WordsOf(lines, sps[j]))
            IN  [ speaker |-> sps[j],
                  unique_word_count |-> Len(ws),
                  unique_words_sample |-> SubSeq(ws, 1, Min(limit, Len(ws))) ]]

----------------------------------------------------------------------------
(* Speaker turns extraction *)

\* The list comprehension's filter: a segment with its three keys.
IsComplete(seg) == {"speaker_label", "start_time", "end_time"} \subseteq DOMAIN seg

SegStart(seg) == seg.start

\* sorted([...], key=lambda x: x["start"])
SortedSegments(raw) ==
    LET complete == SelectSeq(raw, IsComplete)
        kept == [k \in 1..Len(complete) |->
                    [ speaker |-> complete[k].speaker_label,
                      start |-> complete[k].start_time,
                      end |-> complete[k].end_time ]]
    IN  StableSort(kept, [k \in DOMAIN kept |-> SegStart(kept[k])])

\* flush(): the turns with the accumulated text appended, when there is a
\* speaker and the text is not blank.
Flush(lines, speaker, txt) ==
    IF speaker # None /\ NormSpace(txt) # <<>>
    THEN Append(lines, [speaker |-> speaker, text |-> NormSpace(txt)])
    ELSE lines

\* AdvanceCursor stopping at the last segment, so that a trailing item is
\* given to it.
RECURSIVE AdvanceCursor_KeepsLast(_, _, _)
AdvanceCursor_KeepsLast(segs, k, start_time) ==
    IF k < Len(segs) - 1 /\ start_time > segs[k + 1].end
    THEN AdvanceCursor_KeepsLast(segs, k + 1, start_time)
    ELSE k

\* AdvanceCursor also passing a segment that ends when the item starts.
RECURSIVE AdvanceCursor_PassesEqual(_, _, _)
AdvanceCursor_PassesEqual(segs, k, start_time) ==
    IF k < Len(segs) /\ start_time >= segs[k + 1].end
    THEN AdvanceCursor_PassesEqual(segs, k + 1, start_time)
    ELSE k

\* The while loop at a pronunciation item: the cursor after it.
RECURSIVE AdvanceCursor(_, _, _)
AdvanceCursor(segs, k, start_time) ==
    IF k < Len(segs) /\ start_time > segs[k + 1].end
    THEN AdvanceCursor(segs, k + 1, start_time)
    ELSE k

\* What spk_key answers for a label with no integer after its first "_".
SPK_KEY_DEFAULT == 999999

SpkKey(label) ==
    LET parts == SplitOn(label, "_")
    IN  IF Len(parts) >= 2 /\ IsInt(parts[2]) THEN ParseInt(parts[2])
        ELSE SPK_KEY_DEFAULT

\* {ln["speaker"] for ln in speaker_lines if ln.get("speaker")}
LabelsUsed(lines) ==
    { lines[k].speaker : k \in { i \in 1..Len(lines) : lines[i].speaker # <<>> } }

\* mapping.get(label, "speaker 1") where mapping numbers unique_raw from 1.
MappedSpeaker(raw, label) ==
    IF \E i \in 1..Len(raw) : raw[i] = label
    THEN SpeakerName(CHOOSE i \in 1..Len(raw) : raw[i] = label)
    ELSE SpeakerName(1)

----------------------------------------------------------------------------
(* Spec: one call of _handle_transcribe_status on a completed job, from    *)
(* _speaker_turns_from_transcribe_json to _unique_words_by_speaker.  The   *)
(* segments are given from the start; each item, and the fallback          *)
(* transcript, is given when the code reads it.                            *)

MaxTime == 1
MaxSegs == 2
MaxItems == 3
MaxSampleLimit == 1

\* sample_limit as _handle_transcribe_status passes it.
SAMPLE_LIMIT == 30

Times == 0..MaxTime

Labels == { <<"s", "_", "0">>, <<"s", "_", "1">>, <<"a">>, <<"b">> }

RawSegments ==
    { [speaker_label |-> l, start_time |-> t1, end_time |-> t2] :
        l \in Labels, t1 \in Times, t2 \in Times }
    \cup { [speaker_label |-> <<"s", "_", "0">>, start_time |-> 0] }

WellFormed(seg) == IsComplete(seg) => seg.start_time <= seg.end_time

SegmentLists ==
    UNION { { raw \in [1..n -> RawSegments] : \A k \in 1..n : WellFormed(raw[k]) } :
            n \in 0..MaxSegs }

Contents == { <<"a">>, <<"A">>, <<"n", "o">> }

Items ==
    { [type |-> "pronunciation", start_time |-> t, content |-> c] :
        t \in Times, c \in Contents }
    \cup { [type |-> "punctuation", content |-> <<",">>] }
    \cup { [type |-> "speaker-change"] }

Transcripts ==
    { <<>>, <<" ", "\t">>, <<"a", " ", "n", "o">>,
      <<"a", " ", "n", "o", " ", " ", "a", " ", "n", "o">> }

SampleLimits == (0..MaxSampleLimit) \cup {SAMPLE_LIMIT}

DedupeIdle ==
    /\ phrase = <<>>
    /\ reps = 0
    /\ text = <<>>
    /\ deduped = <<>>
    /\ again = <<>>

Init ==
    /\ DedupeIdle
    /\ pc = "start"
    /\ speaker_segments \in SegmentLists
    /\ n_items \in 0..MaxItems
    /\ transcript = None
    /\ segments = <<>>
    /\ idx = 0
    /\ item = NoItem
    /\ seg_index = 0
    /\ current_speaker = None
    /\ current_text = <<>>
    /\ speaker_lines = <<>>
    /\ unique_raw = <<>>
    /\ speaker_count = 0
    /\ sample_limit = 0
    /\ unique_words = <<>>

\* No segments: the whole transcript is the one turn of "speaker 1".
Fallback ==
    /\ pc = "start"
    /\ speaker_segments = <<>>
    /\ \E t \in Transcripts :
          /\ transcript' = t
          /\ speaker_lines' = << [speaker |-> SpeakerName(1), text |-> DedupeText(t)] >>
    /\ speaker_count' = 1
    /\ pc' = "returned"
    /\ UNCHANGED <<dedupe_vars, speaker_segments, n_items, segments, idx, item,
                   seg_index, current_speaker, current_text, unique_raw,
                   sample_limit, unique_words>>

SortSegments ==
    /\ pc = "start"
    /\ speaker_segments # <<>>
    /\ segments' = SortedSegments(speaker_segments)
    /\ pc' = "scan"
    /\ UNCHANGED <<dedupe_vars, speaker_segments, n_items, transcript, idx, item,
                   seg_index, current_speaker, current_text, speaker_lines,
                   unique_raw, speaker_count, sample_limit, unique_words>>

\* The for loop takes its next item.
Take(it) ==
    /\ pc = "scan"
    /\ idx < n_items
    /\ idx' = idx + 1
    /\ item' = it

\* A pronunciation item with a segment left for it.
ScanPronunciation ==
    \E it \in Items :
        /\ Take(it)
        /\ it.type = "pronunciation"
        /\ LET k == AdvanceCursor(segments, seg_index, it.start_time)
           IN  /\ k < Len(segments)
               /\ seg_index' = k
               /\ LET speaker == segments[k + 1].speaker
                      changed == speaker # current_speaker
                      txt == IF changed THEN <<>> ELSE current_text
                  IN  /\ speaker_lines' =
                            IF changed
                            THEN Flush(speaker_lines, current_speaker, current_text)
                            ELSE speaker_lines
                      /\ current_speaker' = speaker
                      /\ current_text' =
                            IF txt = <<>> THEN it.content
                            ELSE txt \o <<" ">> \o it.content
        /\ pc' = "scan"
        /\ UNCHANGED <<dedupe_vars, speaker_segments, n_items, transcript, segments,
                       unique_raw, speaker_count, sample_limit, unique_words>>

\* A pronunciation item that takes the cursor past the last segment: break.
ScanBreak ==
    \E it \in Items :
        /\ Take(it)
        /\ it.type = "pronunciation"
        /\ LET k == AdvanceCursor(segments, seg_index, it.start_time)
           IN  /\ k >= Len(segments)
               /\ seg_index' = k
        /\ pc' = "flush"
        /\ UNCHANGED <<dedupe_vars, speaker_segments, n_items, transcript, segments,
                       current_speaker, current_text, speaker_lines,
                       unique_raw, speaker_count, sample_limit, unique_words>>

ScanPunctuation ==
    \E it \in Items :
        /\ Take(it)
        /\ it.type = "punctuation"
        /\ current_text' =
              IF current_text # <<>> THEN current_text \o it.content ELSE current_text
        /\ pc' = "scan"
        /\ UNCHANGED <<dedupe_vars, speaker_segments, n_items, transcript, segments,
                       seg_index, current_speaker, speaker_lines,
                       unique_raw, speaker_count, sample_limit, unique_words>>

\* An item of any other type is passed over.
ScanOther ==
    \E it \in Items :
        /\ Take(it)
        /\ it.type \notin {"pronunciation", "punctuation"}
        /\ pc' = "scan"
        /\ UNCHANGED <<dedupe_vars, speaker_segments, n_items, transcript, segments,
                       seg_index, current_speaker, current_text, speaker_lines,
                       unique_raw, speaker_count, sample_limit, unique_words>>

\* The flush() after the loop, left by break or by the end of the items.
FinalFlush ==
    /\ pc = "flush" \/ (pc = "scan" /\ idx = n_items)
    /\ speaker_lines' = Flush(speaker_lines, current_speaker, current_text)
    /\ current_text' = <<>>
    /\ pc' = "normalize"
    /\ UNCHANGED <<dedupe_vars, speaker_segments, n_items, transcript, segments,
                   idx, item, seg_index, current_speaker,
                   unique_raw, speaker_count, sample_limit, unique_words>>

\* unique_raw, mapping and the loop that renames and de-duplicates each turn.
\* sorted() is stable and a set of str is iterated in an order that varies
\* from process to process, so labels of equal key come in any order.
Normalize ==
    /\ pc = "normalize"
    /\ \E order \in Orders(LabelsUsed(speaker_lines)) :
          LET raw == StableSort(order, [i \in DOMAIN order |-> SpkKey(order[i])])
          IN  /\ unique_raw' = raw
              /\ speaker_lines' =
                    [k \in 1..Len(speaker_lines) |->
                        [ speaker |-> MappedSpeaker(raw, speaker_lines[k].speaker),
                          text |-> DedupeText(speaker_lines[k].text) ]]
    /\ pc' = "drop"
    /\ UNCHANGED <<dedupe_vars, speaker_segments, n_items, transcript, segments,
                   idx, item, seg_index, current_speaker, current_text,
                   speaker_count, sample_limit, unique_words>>

\* _drop_consecutive_duplicate_lines and the return.
DropDuplicates ==
    /\ pc = "drop"
    /\ speaker_lines' = DropConsecutiveDuplicateLines(speaker_lines)
    /\ speaker_count' = IF unique_raw # <<>> THEN Len(unique_raw) ELSE 1
    /\ pc' = "returned"
    /\ UNCHANGED <<dedupe_vars, speaker_segments, n_items, transcript, segments,
                   idx, item, seg_index, current_speaker, current_text,
                   unique_raw, sample_limit, unique_words>>

\* _unique_words_by_speaker on the returned turns.
UniqueWords ==
    /\ pc = "returned"
    /\ \E limit \in SampleLimits :
          /\ sample_limit' = limit
          /\ unique_words' = UniqueWordsBySpeaker(speaker_lines, limit)
    /\ pc' = "done"
    /\ UNCHANGED <<dedupe_vars, speaker_segments, n_items, transcript, segments,
                   idx, item, seg_index, current_speaker, current_text,
                   speaker_lines, unique_raw, speaker_count>>

Next ==
    \/ Fallback
    \/ SortSegments
    \/ ScanPronunciation
    \/ ScanBreak
    \/ ScanPunctuation
    \/ ScanOther
    \/ FinalFlush
    \/ Normalize
    \/ DropDuplicates
    \/ UniqueWords

Spec == Init /\ [][Next]_vars

----------------------------------------------------------------------------
(* Claims about the speaker turns, checked under Spec *)

\* The step is one iteration of the for loop over the items; item' is the
\* item it takes.
LoopStep == pc = "scan" /\ idx' = idx + 1

Returned == pc \in {"returned", "done"}

\* The item starts after the end of the last segment in start-time order.
AfterLastSegment(it) ==
    segments # <<>> /\ it.start_time > segments[Len(segments)].end

\* The item starts after the end of every segment.
AfterEverySegment(it) ==
    segments # <<>> /\ \A k \in 1..Len(segments) : it.start_time > segments[k].end

\* The loop is left with the turns and the accumulator as they were, and no
\* later step takes an item.
StopsTheScan ==
    /\ pc' = "flush"
    /\ UNCHANGED <<speaker_lines, current_speaker, current_text>>

NoItemTakenAfterTheLoop == pc \notin {"start", "scan"} => (idx' = idx /\ item' = item)

\* C2 as stated: a pronunciation item that starts after the end of the last
\* segment (in start-time order) goes into no turn, nor does any item after
\* it: the loop is left at it, and the turns accumulated are flushed.
C2_AfterLastSegmentExcluded ==
    [][ /\ (LoopStep /\ item'.type = "pronunciation" /\ AfterLastSegment(item'))
           => StopsTheScan
        /\ NoItemTakenAfterTheLoop ]_vars

\* C2 as amended: a pronunciation item that starts after the end of every
\* segment goes into no turn, nor does any item after it: the loop is left
\* at it, and the turns accumulated are flushed.
C2_AfterEverySegmentExcluded ==
    [][ /\ (LoopStep /\ item'.type = "pronunciation" /\ AfterEverySegment(item'))
           => StopsTheScan
        /\ NoItemTakenAfterTheLoop ]_vars

\* The call has returned turns after the loop was left at an item that
\* starts after every segment, with items still to come.
C2_Witness ==
    /\ pc = "done"
    /\ item.type = "pronunciation"
    /\ AfterEverySegment(item)
    /\ seg_index = Len(segments)
    /\ idx < n_items
    /\ speaker_lines # <<>>

\* The label has the form prefix_number.
HasNumericSuffix(label) ==
    \E k \in 1..(Len(label) - 1) :
        /\ label[k] = "_"
        /\ \A i \in 1..(k - 1) : label[i] # "_"
        /\ \A i \in (k + 1)..Len(label) : label[i] \in Digits

NumericSuffix(label) ==
    ParseInt(SubSeq(label, (CHOOSE k \in 1..Len(label) : label[k] = "_") + 1, Len(label)))

\* x comes before y in the order the specification gives the ordinals in.
OrderedBefore(x, y) ==
    \/ HasNumericSuffix(x) /\ HasNumericSuffix(y) /\ NumericSuffix(x) < NumericSuffix(y)
    \/ HasNumericSuffix(x) /\ ~HasNumericSuffix(y)
    \/ ~HasNumericSuffix(x) /\ ~HasNumericSuffix(y) /\ StrLess(x, y)

\* C3: the ordinals 1, 2, 3, ... go to the distinct raw labels by ascending
\* numeric suffix, then to the labels without one, in lexicographic order.
C3_OrdinalOrder ==
    pc \in {"drop", "returned", "done"} =>
        \A i, j \in 1..Len(unique_raw) :
            OrderedBefore(unique_raw[i], unique_raw[j]) => i < j

\* C4: with no items and an empty or blank fallback transcript, the turn list
\* returned is empty, with segments and without.
C4_NoContentNoTurns ==
    ( /\ Returned
      /\ n_items = 0
      /\ (transcript = None \/ NormSpace(transcript) = <<>>) )
    => speaker_lines = <<>>

\* The text turns are compared by: case-folded and whitespace-normalised.
FoldedText(ln) == Lower(NormSpace(ln.text))

\* The turns that open a run of equal folded texts, in their order.
FirstOfEachRun(lines) ==
    LET opens == SelectSeq(Indices(lines),
                     LAMBDA k : k = 1 \/ FoldedText(lines[k]) # FoldedText(lines[k - 1]))
    IN  [j \in 1..Len(opens) |-> lines[opens[j]]]

DistinctWords(lines, sp) ==
    UNION { { Lower(SubSeq(lines[k].text, a, b)) :
                <<a, b>> \in { r \in (1..Len(lines[k].text)) \X (1..Len(lines[k].text)) :
                    /\ r[1] <= r[2]
                    /\ \A i \in r[1]..r[2] : IsWordChar(lines[k].text[i])
                    /\ (r[1] = 1 \/ ~IsWordChar(lines[k].text[r[1] - 1]))
                    /\ (r[2] = Len(lines[k].text)
                          \/ ~IsWordChar(lines[k].text[r[2] + 1])) } } :
            k \in { i \in 1..Len(lines) : lines[i].speaker = sp } }

\* The n of "speaker n".
OrdinalOf(sp) == CHOOSE n \in 1..(MaxSegs + 1) : SpeakerName(n) = sp

C9_SpeakersOfReturnedTurns ==
    Returned =>
        LET ids == { speaker_lines[k].speaker : k \in 1..Len(speaker_lines) }
        IN  /\ ids = { SpeakerName(n) : n \in 1..Cardinality(ids) }
            /\ speaker_lines # <<>> => speaker_count = Cardinality(ids)

\* C10: the segment cursor never decreases; a pronunciation item starting at
\* t moves it only past segments that end before t and goes to the segment
\* then under it; a punctuation item leaves the cursor and the speaker alone
\* and is appended without a space to a non-empty text, dropped otherwise.
C10_CursorAndPunctuation ==
    [][ /\ seg_index' >= seg_index
        /\ (LoopStep /\ item'.type = "pronunciation") =>
              /\ \A k \in (seg_index + 1)..seg_index' :
                    segments[k].end < item'.start_time
              /\ pc' = "scan" =>
                    /\ current_speaker' = segments[seg_index' + 1].speaker
                    /\ Len(current_text') >= Len(item'.content)
                    /\ SubSeq(current_text',
                              Len(current_text') - Len(item'.content) + 1,
                              Len(current_text')) = item'.content
        /\ (LoopStep /\ item'.type = "punctuation") =>
              /\ UNCHANGED <<seg_index, current_speaker, speaker_lines>>
              /\ current_text' = IF current_text = <<>> THEN <<>>
                                 ELSE current_text \o item'.content ]_vars

\* The cursor has moved on, and a punctuation item has just been appended to
\* the text of the segment under it.
C10_Witness ==
    /\ pc = "scan"
    /\ seg_index > 0
    /\ item.type = "punctuation"
    /\ current_text # <<>>
    /\ current_text[Len(current_text)] = ","
    /\ current_speaker = segments[seg_index + 1].speaker

----------------------------------------------------------------------------
(* SpecDedupe: _dedupe_text applied to a text, and to its own result. *)

\* The words texts are made of.
Vocabulary == { <<"a">>, <<"n", "o">> }

\* The longest phrase, the most repetitions and the longest text tried, and
\* the longest text also tried with untidy whitespace.
MaxPhrase == 12
MaxReps == 8
MaxWords == 48
MaxUntidy == 9

Repeat(w, k) == [j \in 1..(Len(w) * k) |-> w[((j - 1) % Len(w)) + 1]]

\* The words joined by single spaces, or with untidy whitespace around and
\* between them.
Tidy(words) == Join(words)

Untidy(words) == <<"\t">> \o JoinRange(words, <<" ", "\t">>, 1, Len(words)) \o <<" ">>

Phrases == UNION { [1..n -> Vocabulary] : n \in 1..MaxPhrase }

\* The variables of _speaker_turns_from_transcribe_json before it is called.
TurnsIdle ==
    /\ speaker_segments = <<>>
    /\ n_items = 0
    /\ transcript = None
    /\ segments = <<>>
    /\ idx = 0
    /\ item = NoItem
    /\ seg_index = 0
    /\ current_speaker = None
    /\ current_text = <<>>
    /\ speaker_lines = <<>>
    /\ unique_raw = <<>>
    /\ speaker_count = 0
    /\ sample_limit = 0
    /\ unique_words = <<>>

InitDedupe ==
    /\ TurnsIdle
    /\ pc = "text"
    /\ phrase \in Phrases
    /\ reps \in 1..MaxReps
    /\ Len(phrase) * reps <= MaxWords
    /\ text \in { Tidy(Repeat(phrase, reps)) }
                \cup (IF Len(phrase) * reps <= MaxUntidy
                      THEN { Untidy(Repeat(phrase, reps)) } ELSE {})
    /\ deduped = <<>>
    /\ again = <<>>

CallDedupeText ==
    /\ pc = "text"
    /\ deduped' = DedupeText(text)
    /\ pc' = "once"
    /\ UNCHANGED <<phrase, reps, text, again, turn_vars>>

CallDedupeTextAgain ==
    /\ pc = "once"
    /\ again' = DedupeText(deduped)
    /\ pc' = "twice"
    /\ UNCHANGED <<phrase, reps, text, deduped, turn_vars>>

NextDedupe == CallDedupeText \/ CallDedupeTextAgain

SpecDedupe == InitDedupe /\ [][NextDedupe]_vars

----------------------------------------------------------------------------
(* Claims about _dedupe_text, checked under SpecDedupe *)

WordCount(s) == Len(Split(s))

\* C1 as stated: _dedupe_text is idempotent on every text,
\* _dedupe_text(_dedupe_text(x)) = _dedupe_text(x).
C1_IdempotentOnEveryText == pc = "twice" => again = deduped

\* C1 as amended: _dedupe_text is idempotent on every text of at most 8
\* words.
C1_IdempotentUpToEightWords ==
    (pc = "twice" /\ WordCount(text) <= 8) => again = deduped

\* A text of 8 words that _dedupe_text shortened, and the second application
\* has been made.
C1_Witness ==
    /\ pc = "twice"
    /\ WordCount(text) = 8
    /\ WordCount(deduped) < 8
    /\ again = deduped

\* w contains a phrase of 2 or more words immediately followed by itself.
HasRepeatedSubPhrase(w) ==
    \E n \in 2..(Len(w) \div 2) : \E i \in 0..(Len(w) - 2 * n) :
        SubSeq(w, i + 1, i + n) = SubSeq(w, i + n + 1, i + 2 * n)

\* C6: a phrase w of 2 to 12 words with no immediately repeated sub-phrase of
\* 2 or more words, repeated twice or four times, is collapsed to w.
C6_PhraseCollapse ==
    ( /\ pc # "text"
      /\ Len(phrase) \in N_MIN..N_MAX
      /\ ~HasRepeatedSubPhrase(phrase)
      /\ reps \in {2, 4} )
    => deduped = Join(phrase)

\* A 12-word phrase with no repeated sub-phrase, repeated four times, has been
\* collapsed to one copy.
C6_Witness ==
    /\ pc = "once"
    /\ Len(phrase) = N_MAX
    /\ ~HasRepeatedSubPhrase(phrase)
    /\ reps = 4
    /\ WordCount(text) = 4 * N_MAX
    /\ deduped = Join(phrase)

\* C7 as stated: k >= 2 copies of one word are returned with all k copies.
C7_SingleWordNeverCollapsed ==
    (pc # "text" /\ Len(phrase) = 1 /\ reps >= 2)
    => Split(deduped) = Repeat(phrase, reps)

\* C7 as amended: 2 or 3 copies of one word (fewer than 2 * n_min words) are
\* returned with all their copies.
C7_TwoOrThreeCopiesKept ==
    (pc # "text" /\ Len(phrase) = 1 /\ reps >= 2 /\ reps < 2 * N_MIN)
    => Split(deduped) = Repeat(phrase, reps)

\* Three copies of one word have come back as three copies.
C7_Witness ==
    /\ pc = "once"
    /\ Len(phrase) = 1
    /\ reps = 3
    /\ Split(deduped) = Repeat(phrase, 3)

====
